---- MODULE Spec2Model ----
(***************************************************************************)
(* A model of DocPrinter (src/src/printer.rs): the rendering passes of a   *)
(* documentation-node tree into a sink, one write of the sink per step.    *)
(*                                                                         *)
(* A write is recorded by what it is, not by its text: its token t, the    *)
(* group g of the member list it belongs to, its indentation ind, whether  *)
(* it wraps a token in a colors::* style (sty), the node n (its location)  *)
(* and the member m / line k it is about.                                  *)
(***************************************************************************)
EXTENDS Integers, Sequences, FiniteSets, TLC

VARIABLES
  doc_nodes,   \* the root list handed to DocPrinter::new (read-only)
  USE_COLOR,   \* the process-wide flag of crate::colors
  printer,     \* per pass: the DocPrinter's use_color and private fields
  sorted,      \* per pass: the local `sorted` vector of format_
  pc,          \* per pass: "idle", "run", "ok" (returned Ok), "err" (returned Err)
  w,           \* per pass: what its sink has accepted so far
  attempts     \* per pass: the number of writes attempted on its sink

vars == <<doc_nodes, USE_COLOR, printer, sorted, pc, w, attempts>>

\* ------------------------------------------------------------------ bounds

MaxNodes == 2     \* length of the root list
MaxMembers == 2   \* properties plus methods of a class
MaxElems == 2     \* elements of a namespace

\* -------------------------------------------------------------- data model

Kinds == {"ModuleDoc", "Function", "Variable", "Class", "Enum", "Interface",
          "TypeAlias", "Namespace", "Import"}

\* names are byte strings: "A", "AB", "B", "a"
NameA == <<65>>
NameAB == <<65, 66>>
NameB == <<66>>
Namea == <<97>>
Names == {NameA, NameAB, NameB, Namea}

\* the payload of a node; a kind reads only its own fields
EmptyDef ==
  [decorators |-> 0, type_params |-> 0, extends |-> 0, super_type_params |-> 0,
   implements |-> 0, constructors |-> <<>>, properties |-> <<>>,
   index_signatures |-> 0, methods |-> <<>>, members |-> <<>>,
   elements |-> <<>>, return_type |-> 0, ts_type |-> 0]

MkNode(kind, name, loc, doc, def) ==
  [kind |-> kind, name |-> name, loc |-> loc, doc |-> doc, def |-> def]

Member(acc, decos, doc) == [accessibility |-> acc, decorators |-> decos, doc |-> doc]

\* one write on the sink
W(t, g, ind, sty, n, m, k) ==
  [t |-> t, g |-> g, ind |-> ind, sty |-> sty, n |-> n, m |-> m, k |-> k]

RECURSIVE Concat(_)
Concat(ss) == IF ss = <<>> THEN <<>> ELSE Head(ss) \o Concat(Tail(ss))

Opt(c, s) == IF c THEN s ELSE <<>>

\* ------------------------------------------------------------ the printer

\* a faulty kind_order: the ranks of Enum and Interface exchanged
kind_order_swapped(kind) ==
  CASE kind = "ModuleDoc" -> 0
    [] kind = "Function" -> 1
    [] kind = "Variable" -> 2
    [] kind = "Class" -> 3
    [] kind = "Enum" -> 5
    [] kind = "Interface" -> 4
    [] kind = "TypeAlias" -> 6
    [] kind = "Namespace" -> 7
    [] kind = "Import" -> 8

kind_order(kind) ==
  CASE kind = "ModuleDoc" -> 0
    [] kind = "Function" -> 1
    [] kind = "Variable" -> 2
    [] kind = "Class" -> 3
    [] kind = "Enum" -> 4
    [] kind = "Interface" -> 5
    [] kind = "TypeAlias" -> 6
    [] kind = "Namespace" -> 7
    [] kind = "Import" -> 8

IntCmp(a, b) == IF a < b THEN "Less" ELSE IF a > b THEN "Greater" ELSE "Equal"

\* str::cmp: byte-wise lexicographic, a proper prefix is less
RECURSIVE StrCmp(_, _)
StrCmp(a, b) ==
  IF a = <<>> /\ b = <<>> THEN "Equal"
  ELSE IF a = <<>> THEN "Less"
  ELSE IF b = <<>> THEN "Greater"
  ELSE IF Head(a) < Head(b) THEN "Less"
  ELSE IF Head(a) > Head(b) THEN "Greater"
  ELSE StrCmp(Tail(a), Tail(b))

\* the closure given to sort_unstable_by
NodeCmp(a, b) ==
  LET kind_cmp == IntCmp(kind_order(a.kind), kind_order(b.kind))
  IN  IF kind_cmp = "Equal" THEN StrCmp(a.name, b.name) ELSE kind_cmp

\* sort_unstable_by: some permutation in the comparator's order; equal
\* elements in any order
SortUnstable(nodes) ==
  LET n == Len(nodes)
  IN  { s \in { [i \in 1..n |-> nodes[f[i]]] : f \in Permutations(1..n) } :
          \A i \in 1..n : \A j \in 1..n :
            i < j => NodeCmp(s[i], s[j]) # "Greater" }

format_jsdoc(n, g, m, doc, indent) ==
  [k \in 1..doc |-> W("doc", g, indent, TRUE, n, m, k)]

format_class_signature(node, indent) ==
  LET d == node.def
  IN  [k \in 1..d.decorators |-> W("decorator", "node", indent, FALSE, node.loc, 0, k)]
      \o <<W("class", "node", indent, TRUE, node.loc, 0, 0)>>
      \o Opt(d.type_params # 0, <<W("type_params", "node", indent, FALSE, node.loc, 0, 0)>>)
      \o Opt(d.extends # 0, <<W("extends", "node", indent, TRUE, node.loc, 0, 0)>>)
      \o Opt(d.super_type_params # 0,
             <<W("super_type_params", "node", indent, FALSE, node.loc, 0, 0)>>)
      \o Opt(d.implements # 0, <<W("implements", "node", indent, TRUE, node.loc, 0, 0)>>)
      \o <<W("newline", "node", indent, FALSE, node.loc, 0, 0)>>

format_enum_signature(node, indent) ==
  <<W("enum", "node", indent, TRUE, node.loc, 0, 0)>>

format_function_signature(node, indent) ==
  LET d == node.def
  IN  <<W("function", "node", indent, TRUE, node.loc, 0, 0)>>
      \o Opt(d.type_params # 0, <<W("type_params", "node", indent, FALSE, node.loc, 0, 0)>>)
      \o <<W("params", "node", indent, FALSE, node.loc, 0, 0)>>
      \o Opt(d.return_type # 0, <<W("return_type", "node", indent, FALSE, node.loc, 0, 0)>>)
      \o <<W("newline", "node", indent, FALSE, node.loc, 0, 0)>>

format_interface_signature(node, indent) ==
  LET d == node.def
  IN  <<W("interface", "node", indent, TRUE, node.loc, 0, 0)>>
      \o Opt(d.type_params # 0, <<W("type_params", "node", indent, FALSE, node.loc, 0, 0)>>)
      \o Opt(d.extends # 0, <<W("extends", "node", indent, TRUE, node.loc, 0, 0)>>)
      \o <<W("newline", "node", indent, FALSE, node.loc, 0, 0)>>

format_module_doc(node, indent) == <<>>

format_type_alias_signature(node, indent) ==
  LET d == node.def
  IN  <<W("type", "node", indent, TRUE, node.loc, 0, 0)>>
      \o Opt(d.type_params # 0, <<W("type_params", "node", indent, FALSE, node.loc, 0, 0)>>)
      \o <<W("alias", "node", indent, FALSE, node.loc, 0, 0)>>

format_namespace_signature(node, indent) ==
  <<W("namespace", "node", indent, TRUE, node.loc, 0, 0)>>

format_variable_signature(node, indent) ==
  LET d == node.def
  IN  <<W("variable", "node", indent, TRUE, node.loc, 0, 0)>>
      \o Opt(d.ts_type # 0, <<W("ts_type", "node", indent, FALSE, node.loc, 0, 0)>>)
      \o <<W("newline", "node", indent, FALSE, node.loc, 0, 0)>>

format_signature(node, indent) ==
  CASE node.kind = "ModuleDoc" -> format_module_doc(node, indent)
    [] node.kind = "Function" -> format_function_signature(node, indent)
    [] node.kind = "Variable" -> format_variable_signature(node, indent)
    [] node.kind = "Class" -> format_class_signature(node, indent)
    [] node.kind = "Enum" -> format_enum_signature(node, indent)
    [] node.kind = "Interface" -> format_interface_signature(node, indent)
    [] node.kind = "TypeAlias" -> format_type_alias_signature(node, indent)
    [] node.kind = "Namespace" -> format_namespace_signature(node, indent)
    [] node.kind = "Import" -> <<>>

\* accessibility.unwrap_or(Accessibility::Public)
UnwrapOrPublic(acc) == IF acc = "None" THEN "Public" ELSE acc

\* a faulty filter: an absent accessibility is not unwrapped to public
MemberFilterAbsentHidden(private, member) ==
  private \/ member.accessibility \in {"Public", "Protected"}

\* the closure given to filter() for properties and for methods
MemberFilter(private, member) ==
  private \/ UnwrapOrPublic(member.accessibility) # "Private"

\* the indices iter().filter() yields, in order
RECURSIVE FilterIdx(_, _, _)
FilterIdx(private, members, i) ==
  IF i > Len(members) THEN <<>>
  ELSE Opt(MemberFilter(private, members[i]), <<i>>)
       \o FilterIdx(private, members, i + 1)

\* one property or method: its decorators, its line, its description
FormatMember(n, g, t, i, member) ==
  [k \in 1..member.decorators |-> W("decorator", g, 1, FALSE, n, i, k)]
  \o <<W(t, g, 1, FALSE, n, i, 0)>>
  \o format_jsdoc(n, g, i, member.doc, 2)

\* a faulty format_class: the methods before the index signatures
format_class_methods_first(private, node) ==
  LET class_def == node.def
      n == node.loc
      props == FilterIdx(private, class_def.properties, 1)
      meths == FilterIdx(private, class_def.methods, 1)
  IN  Concat([i \in 1..Len(class_def.constructors) |->
                <<W("constructor", "ctor", 1, FALSE, n, i, 0)>>
                \o format_jsdoc(n, "ctor", i, class_def.constructors[i].doc, 2)])
      \o Concat([j \in 1..Len(props) |->
                FormatMember(n, "prop", "property", props[j],
                             class_def.properties[props[j]])])
      \o Concat([j \in 1..Len(meths) |->
                FormatMember(n, "method", "method", meths[j],
                             class_def.methods[meths[j]])])
      \o [i \in 1..class_def.index_signatures |->
                W("index_signature", "idx", 1, FALSE, n, i, 0)]
      \o <<W("blank", "body", 0, FALSE, n, 0, 0)>>

format_class(private, node) ==
  LET class_def == node.def
      n == node.loc
      props == FilterIdx(private, class_def.properties, 1)
      meths == FilterIdx(private, class_def.methods, 1)
  IN  Concat([i \in 1..Len(class_def.constructors) |->
                <<W("constructor", "ctor", 1, FALSE, n, i, 0)>>
                \o format_jsdoc(n, "ctor", i, class_def.constructors[i].doc, 2)])
      \o Concat([j \in 1..Len(props) |->
                FormatMember(n, "prop", "property", props[j],
                             class_def.properties[props[j]])])
      \o [i \in 1..class_def.index_signatures |->
                W("index_signature", "idx", 1, FALSE, n, i, 0)]
      \o Concat([j \in 1..Len(meths) |->
                FormatMember(n, "method", "method", meths[j],
                             class_def.methods[meths[j]])])
      \o <<W("blank", "body", 0, FALSE, n, 0, 0)>>

format_enum(node) ==
  LET enum_def == node.def
      n == node.loc
  IN  Concat([i \in 1..Len(enum_def.members) |->
                <<W("member", "member", 1, TRUE, n, i, 0)>>
                \o format_jsdoc(n, "member", i, enum_def.members[i].doc, 2)])
      \o <<W("blank", "body", 0, FALSE, n, 0, 0)>>

format_interface(node) ==
  LET interface_def == node.def
      n == node.loc
  IN  Concat([i \in 1..Len(interface_def.properties) |->
                <<W("property", "iprop", 1, FALSE, n, i, 0)>>
                \o format_jsdoc(n, "iprop", i, interface_def.properties[i].doc, 2)])
      \o Concat([i \in 1..Len(interface_def.methods) |->
                <<W("method", "imethod", 1, FALSE, n, i, 0)>>
                \o format_jsdoc(n, "imethod", i, interface_def.methods[i].doc, 2)])
      \o [i \in 1..interface_def.index_signatures |->
                W("index_signature", "iidx", 1, FALSE, n, i, 0)]
      \o <<W("blank", "body", 0, FALSE, n, 0, 0)>>

\* a faulty format_namespace: the body of a nested class, enum or interface
\* is rendered too
format_namespace_deep(node) ==
  LET elements == node.def.elements
      body(e) == CASE e.kind = "Class" -> format_class(TRUE, e)
                   [] e.kind = "Enum" -> format_enum(e)
                   [] e.kind = "Interface" -> format_interface(e)
                   [] OTHER -> <<>>
  IN  Concat([i \in 1..Len(elements) |->
                format_signature(elements[i], 1)
                \o format_jsdoc(elements[i].loc, "node", 0, elements[i].doc, 2)
                \o body(elements[i])])
      \o <<W("blank", "body", 0, FALSE, node.loc, 0, 0)>>

format_namespace(node) ==
  LET elements == node.def.elements
  IN  Concat([i \in 1..Len(elements) |->
                format_signature(elements[i], 1)
                \o format_jsdoc(elements[i].loc, "node", 0, elements[i].doc, 2)])
      \o <<W("blank", "body", 0, FALSE, node.loc, 0, 0)>>

\* the match on node.kind that ends the loop body of format_
FormatBody(private, node) ==
  CASE node.kind = "Class" -> format_class(private, node)
    [] node.kind = "Enum" -> format_enum(node)
    [] node.kind = "Interface" -> format_interface(node)
    [] node.kind = "Namespace" -> format_namespace(node)
    [] OTHER -> <<>>

\* a faulty loop body: a node without a signature is skipped
FormatNodeSkipUnsigned(private, node, indent) ==
  IF format_signature(node, indent) = <<>> THEN <<>>
  ELSE <<W("header", "node", 0, TRUE, node.loc, 0, 0)>>
       \o format_signature(node, indent)
       \o format_jsdoc(node.loc, "node", 0, node.doc, indent + 1)
       \o <<W("blank", "node", 0, FALSE, node.loc, 0, 0)>>
       \o FormatBody(private, node)

\* the loop body of format_: what one node of `sorted` writes
FormatNode(private, node, indent) ==
  <<W("header", "node", 0, TRUE, node.loc, 0, 0)>>
  \o format_signature(node, indent)
  \o format_jsdoc(node.loc, "node", 0, node.doc, indent + 1)
  \o <<W("blank", "node", 0, FALSE, node.loc, 0, 0)>>
  \o FormatBody(private, node)

\* the writes of the loop of format_ over `sorted`, in order
format_(private, nodes, indent) ==
  Concat([i \in 1..Len(nodes) |-> FormatNode(private, nodes[i], indent)])

\* the writes of the pass p, in order
Plan(p) == format_(printer[p].private, sorted[p], 0)

\* colors::*: a style is applied iff the flag is set when the token is built
Styled(rec, flag) ==
  [t |-> rec.t, g |-> rec.g, ind |-> rec.ind, sty |-> rec.sty, n |-> rec.n,
   m |-> rec.m, k |-> rec.k, col |-> rec.sty /\ flag]

enable_color == TRUE
disable_color == FALSE

\* a faulty write: its result is dropped and the pass goes on
TryIgnored(result) == "run"

\* the `?` after a write: an Err returns from every frame of the pass
Try(result) == IF result = "Err" THEN "err" ELSE "run"

\* ------------------------------------------------------------- the inputs

\* a node of the given kind with every list of its payload empty; Import and
\* ModuleDoc carry a one-line description
Tpl(kind, name) ==
  MkNode(kind, name, 0, IF kind \in {"Import", "ModuleDoc"} THEN 1 ELSE 0, EmptyDef)

OrderTemplates ==
  { Tpl(k, NameA) : k \in Kinds } \cup { Tpl("Function", nm) : nm \in Names }

\* root lists of any kinds and names; a node's location is its place in the input
OrderTrees ==
  UNION { { [i \in 1..n |-> [f[i] EXCEPT !.loc = i]] : f \in [1..n -> OrderTemplates] } :
          n \in 0..MaxNodes }

MemberPool ==
  { Member("None", 0, 0), Member("Public", 1, 0),
    Member("Protected", 0, 1), Member("Private", 1, 1) }

SeqsUpTo(S, n) == UNION { [1..k -> S] : k \in 0..n }

\* the property and method lists of a class: MaxMembers members in all
MemberLists ==
  { pm \in SeqsUpTo(MemberPool, MaxMembers) \X SeqsUpTo(MemberPool, MaxMembers) :
      Len(pm[1]) + Len(pm[2]) <= MaxMembers }

\* one class, its member lists varied
ClassTrees ==
  { << MkNode("Class", NameA, 1, 1,
              [EmptyDef EXCEPT !.constructors = c.ctors, !.properties = pm[1],
                               !.index_signatures = c.ix, !.methods = pm[2]]) >> :
      c \in { [ctors |-> <<>>, ix |-> 0],
              [ctors |-> <<[doc |-> 0], [doc |-> 1]>>, ix |-> 2] },
      pm \in MemberLists }

\* one class, the parts of its signature varied
SignatureTrees ==
  { << MkNode("Class", NameA, 1, 0,
              [EmptyDef EXCEPT !.decorators = d, !.type_params = tp, !.extends = e,
                               !.super_type_params = stp, !.implements = im]) >> :
      d \in 0..1, tp \in 0..1, e \in 0..1, stp \in 0..1, im \in 0..1 }

ElemTemplates ==
  { MkNode("Function", NameB, 0, 1, EmptyDef),
    MkNode("Function", NameA, 0, 0, EmptyDef),
    MkNode("Import", NameA, 0, 1, EmptyDef),
    MkNode("Class", NameA, 0, 1,
           [EmptyDef EXCEPT !.decorators = 1,
                            !.constructors = <<[doc |-> 1]>>,
                            !.properties = <<Member("Public", 1, 1)>>,
                            !.index_signatures = 1,
                            !.methods = <<Member("None", 0, 1)>>]),
    MkNode("Enum", NameA, 0, 0, [EmptyDef EXCEPT !.members = <<[doc |-> 1]>>]),
    MkNode("Interface", NameA, 0, 0,
           [EmptyDef EXCEPT !.properties = <<[doc |-> 1]>>, !.methods = <<[doc |-> 0]>>,
                            !.index_signatures = 1]),
    MkNode("Namespace", NameA, 0, 1,
           [EmptyDef EXCEPT !.elements = <<MkNode("Function", NameA, 0, 1, EmptyDef)>>]) }

\* the element placed i-th in a namespace: locations are unique in a tree
PlaceElem(e, i) ==
  [e EXCEPT !.loc = 10 + i,
            !.def.elements = [j \in 1..Len(@) |-> [@[j] EXCEPT !.loc = 100 + 10 * i + j]]]

\* one namespace, its element list varied
NamespaceTrees ==
  { << MkNode("Namespace", NameB, 1, 1,
              [EmptyDef EXCEPT !.elements = [i \in 1..Len(es) |-> PlaceElem(es[i], i)]]) >> :
      es \in SeqsUpTo(ElemTemplates, MaxElems) }

\* an enum and an interface with members, beside a function
MixedTrees ==
  { << MkNode("Interface", NameA, 1, 1,
              [EmptyDef EXCEPT !.type_params = 1, !.extends = 1,
                               !.properties = <<[doc |-> 1], [doc |-> 0]>>,
                               !.methods = <<[doc |-> 1]>>, !.index_signatures = 1]),
       MkNode("Enum", NameB, 2, 1,
              [EmptyDef EXCEPT !.members = <<[doc |-> 0], [doc |-> 1]>>]),
       MkNode("Function", Namea, 3, 1,
              [EmptyDef EXCEPT !.type_params = 1, !.return_type = 1]) >>,
    << MkNode("TypeAlias", NameAB, 1, 1, [EmptyDef EXCEPT !.type_params = 1]),
       MkNode("Variable", NameA, 2, 1, [EmptyDef EXCEPT !.ts_type = 1]) >> }

Trees == OrderTrees \cup ClassTrees \cup SignatureTrees \cup NamespaceTrees \cup MixedTrees

\* the trees two concurrent passes render
ConcTrees ==
  { << MkNode("Enum", NameA, 1, 0, [EmptyDef EXCEPT !.members = <<[doc |-> 0]>>]) >>,
    << MkNode("Variable", NameA, 1, 1, EmptyDef) >> }

\* ------------------------------------------------------------ the passes

InitWith(trees, procs) ==
  /\ doc_nodes \in trees
  /\ USE_COLOR = FALSE
  /\ printer = [p \in procs |-> [use_color |-> FALSE, private |-> FALSE]]
  /\ sorted = [p \in procs |-> <<>>]
  /\ pc = [p \in procs |-> "idle"]
  /\ w = [p \in procs |-> <<>>]
  /\ attempts = [p \in procs |-> 0]

\* one thread rendering pass after pass
Init == InitWith(Trees, {1})

\* two threads, each rendering pass after pass
InitConc == InitWith(ConcTrees, {1, 2})

\* DocPrinter::new, then format_ up to its loop: the flag is enabled, the
\* list is sorted, the sink is fresh
Start(p, use_color, private) ==
  /\ pc[p] # "run"
  /\ printer' = [printer EXCEPT ![p] = [use_color |-> use_color, private |-> private]]
  /\ USE_COLOR' = IF use_color THEN enable_color ELSE USE_COLOR
  /\ \E s \in SortUnstable(doc_nodes) : sorted' = [sorted EXCEPT ![p] = s]
  /\ pc' = [pc EXCEPT ![p] = "run"]
  /\ w' = [w EXCEPT ![p] = <<>>]
  /\ attempts' = [attempts EXCEPT ![p] = 0]
  /\ UNCHANGED doc_nodes

\* the next write of the pass, accepted by the sink; its colors::* arguments
\* read the flag as the write is made
WriteOk(p) ==
  /\ pc[p] = "run"
  /\ attempts[p] < Len(Plan(p))
  /\ w' = [w EXCEPT ![p] = Append(@, Styled(Plan(p)[attempts[p] + 1], USE_COLOR))]
  /\ attempts' = [attempts EXCEPT ![p] = @ + 1]
  /\ pc' = [pc EXCEPT ![p] = Try("Ok")]
  /\ UNCHANGED <<doc_nodes, USE_COLOR, printer, sorted>>

\* the next write of the pass, rejected by the sink
WriteFail(p) ==
  /\ pc[p] = "run"
  /\ attempts[p] < Len(Plan(p))
  /\ attempts' = [attempts EXCEPT ![p] = @ + 1]
  /\ pc' = [pc EXCEPT ![p] = Try("Err")]
  /\ UNCHANGED <<doc_nodes, USE_COLOR, printer, sorted, w>>

\* the end of format_: the flag is disabled, Ok(()) is returned
Finish(p) ==
  /\ pc[p] = "run"
  /\ attempts[p] = Len(Plan(p))
  /\ USE_COLOR' = IF printer[p].use_color THEN disable_color ELSE USE_COLOR
  /\ pc' = [pc EXCEPT ![p] = "ok"]
  /\ UNCHANGED <<doc_nodes, printer, sorted, w, attempts>>

Next ==
  \/ \E p \in DOMAIN pc : \E use_color \in BOOLEAN, private \in BOOLEAN :
       Start(p, use_color, private)
  \/ \E p \in DOMAIN pc : WriteOk(p)
  \/ \E p \in DOMAIN pc : WriteFail(p)
  \/ \E p \in DOMAIN pc : Finish(p)

Spec == Init /\ [][Next]_vars

SpecConc == InitConc /\ [][Next]_vars

\* ------------------------------------------------------------ properties

Range(s) == { s[i] : i \in DOMAIN s }

Procs == DOMAIN pc

RootLocs == { doc_nodes[i].loc : i \in DOMAIN doc_nodes }

RootByLoc(l) == CHOOSE nd \in Range(doc_nodes) : nd.loc = l

RootsOfKind(kind) == { nd \in Range(doc_nodes) : nd.kind = kind }

\* the kind ranks as the ordering policy lists them, first to last
RankList == <<"ModuleDoc", "Function", "Variable", "Class", "Enum", "Interface",
              "TypeAlias", "Namespace", "Import">>

RankOf(kind) == CHOOSE i \in DOMAIN RankList : RankList[i] = kind

\* a <= b in the lexicographic order of byte strings
LexLeq(a, b) ==
  \E k \in 0..Len(a) :
    /\ k <= Len(b)
    /\ \A i \in 1..k : a[i] = b[i]
    /\ \/ k = Len(a)
       \/ k < Len(b) /\ a[k + 1] < b[k + 1]

\* a may be rendered before b: lower rank, or equal rank and name not greater
MayPrecede(a, b) ==
  \/ RankOf(a.kind) < RankOf(b.kind)
  \/ RankOf(a.kind) = RankOf(b.kind) /\ LexLeq(a.name, b.name)

\* the root nodes a pass has rendered so far, by location, in output order
Headers(p) ==
  LET hs == SelectSeq(w[p], LAMBDA r : r.t = "header")
  IN  [i \in DOMAIN hs |-> hs[i].n]

\* C1: the root nodes are rendered in non-decreasing kind rank and, within a
\* rank, in non-decreasing name order; no node is rendered twice, and a
\* completed pass has rendered every node of the input list.
C1_RootOrder ==
  \A p \in Procs :
    LET h == Headers(p)
    IN  /\ \A i \in DOMAIN h : h[i] \in RootLocs
        /\ \A i \in DOMAIN h : \A j \in DOMAIN h :
             i < j => h[i] # h[j] /\ MayPrecede(RootByLoc(h[i]), RootByLoc(h[j]))
        /\ pc[p] = "ok" => Range(h) = RootLocs /\ Len(h) = Len(doc_nodes)

\* a completed pass over two functions given in descending name order
C1_Witness ==
  /\ pc[1] = "ok"
  /\ Len(doc_nodes) = 2
  /\ doc_nodes[1].kind = "Function" /\ doc_nodes[2].kind = "Function"
  /\ doc_nodes[1].name = NameAB /\ doc_nodes[2].name = NameA
  /\ Headers(1) = <<2, 1>>

\* the elements of a root namespace, by location
ElemLocs(ns) == { ns.def.elements[i].loc : i \in DOMAIN ns.def.elements }

ElemByLoc(ns, l) == CHOOSE e \in Range(ns.def.elements) : e.loc = l

\* C2: the elements of every namespace are rendered in non-decreasing kind
\* rank and, within a rank, non-decreasing name order, whatever the order of
\* the input.
C2_NamespaceOrder ==
  \A p \in Procs : \A ns \in RootsOfKind("Namespace") :
    \A i \in DOMAIN w[p] : \A j \in DOMAIN w[p] :
      (i < j /\ w[p][i].n \in ElemLocs(ns) /\ w[p][j].n \in ElemLocs(ns))
        => MayPrecede(ElemByLoc(ns, w[p][i].n), ElemByLoc(ns, w[p][j].n))

\* the writes of a pass about member i of group g of the node at location n
MemberRecs(p, n, g, i) == { r \in Range(w[p]) : r.n = n /\ r.g = g /\ r.m = i }

\* member lists of group g: rendered iff included, nothing written otherwise
FilteredAsClaimed(p, n, g, t, members) ==
  \A i \in DOMAIN members :
    LET included == printer[p].private \/ members[i].accessibility # "Private"
    IN  /\ ~included => MemberRecs(p, n, g, i) = {}
        /\ (included /\ pc[p] = "ok") => \E r \in MemberRecs(p, n, g, i) : r.t = t

\* C3: a property or method is rendered iff includePrivate or its
\* accessibility is not private (absent counts as public); an excluded member
\* writes nothing, neither decorator, signature nor description; constructors
\* and index signatures are never filtered.
C3_Visibility ==
  \A p \in Procs : \A c \in RootsOfKind("Class") :
    /\ FilteredAsClaimed(p, c.loc, "prop", "property", c.def.properties)
    /\ FilteredAsClaimed(p, c.loc, "method", "method", c.def.methods)
    /\ pc[p] = "ok" =>
         /\ \A i \in DOMAIN c.def.constructors :
              \E r \in MemberRecs(p, c.loc, "ctor", i) : r.t = "constructor"
         /\ \A i \in 1..c.def.index_signatures :
              \E r \in MemberRecs(p, c.loc, "idx", i) : r.t = "index_signature"

\* a completed pass without private members over a class with a private
\* property (decorated, described) and a method of absent accessibility
C3_Witness ==
  /\ pc[1] = "ok" /\ ~printer[1].private
  /\ \E c \in RootsOfKind("Class") :
       /\ Len(c.def.properties) = 1 /\ Len(c.def.methods) = 1
       /\ c.def.properties[1] = Member("Private", 1, 1)
       /\ c.def.methods[1] = Member("None", 0, 0)
       /\ Len(c.def.constructors) = 2
       /\ MemberRecs(1, c.loc, "method", 1) # {}

\* C4: a pass with useColor styles every styled token it writes and a pass
\* without styles none, whatever another pass does meanwhile.
C4_ColorFixedPerPass ==
  \A p \in Procs : \A i \in DOMAIN w[p] :
    w[p][i].sty => (w[p][i].col = printer[p].use_color)

\* C5: a pass without useColor writes no styled token, whatever passes ran
\* before it.
C5_NoColorUnstyled ==
  \A p \in Procs : ~printer[p].use_color => \A i \in DOMAIN w[p] : ~w[p][i].col

\* C6: once the sink has rejected a write the pass has returned the failure,
\* and that write was the last attempted: the attempts are the accepted
\* writes and the rejected one.
C6_AbortOnWriteFailure ==
  \A p \in Procs :
    /\ attempts[p] >= Len(w[p])
    /\ attempts[p] > Len(w[p]) => pc[p] = "err" /\ attempts[p] = Len(w[p]) + 1
    /\ pc[p] = "err" => attempts[p] > Len(w[p])

\* a pass aborted inside a class body, after some member lines were written
C6_Witness ==
  /\ pc[1] = "err"
  /\ Len(w[1]) >= 1
  /\ w[1][Len(w[1])].g = "prop"
  /\ attempts[1] < Len(Plan(1))

Composite == {"Class", "Enum", "Interface", "Namespace"}

NoSignature == {"Import", "ModuleDoc"}

\* the places of w[p] whose write satisfies Test
Where(p, Test(_)) == { i \in DOMAIN w[p] : Test(w[p][i]) }

\* C7: a namespace is expanded one level deep: an element writes only its
\* signature at depth 1 and its description at depth 2, the body ends with
\* one blank line, and nothing is written for the members of a nested class,
\* enum or interface nor for the elements of a nested namespace.
C7_NamespaceShallow ==
  \A p \in Procs : \A ns \in RootsOfKind("Namespace") :
    LET els == ns.def.elements
        inner == UNION { ElemLocs(els[i]) : i \in DOMAIN els }
        ends == Where(p, LAMBDA r : r.n = ns.loc /\ r.t = "blank" /\ r.g = "body")
        descr == Where(p, LAMBDA r : r.n = ns.loc /\ r.t = "blank" /\ r.g = "node")
    IN  /\ \A r \in Range(w[p]) :
             /\ r.n \notin inner
             /\ r.n = ns.loc => r.g \in {"node", "body"}
             /\ r.n \in ElemLocs(ns) =>
                  /\ r.g = "node"
                  /\ r.t \notin {"header", "blank"}
                  /\ r.ind = IF r.t = "doc" THEN 2 ELSE 1
        /\ \A i \in Where(p, LAMBDA r : r.n \in ElemLocs(ns)) :
             /\ \E j \in descr : j < i
             /\ \A j \in ends : i < j
        /\ pc[p] = "ok" =>
             /\ Cardinality(ends) = 1
             /\ \A i \in DOMAIN els :
                  /\ Cardinality(Where(p, LAMBDA r : r.n = els[i].loc /\ r.t = "doc"))
                       = els[i].doc
                  /\ (Where(p, LAMBDA r : r.n = els[i].loc /\ r.t # "doc") # {})
                       <=> els[i].kind \notin NoSignature

\* a completed pass over a namespace that holds a class with members and a
\* namespace with an element
C7_Witness ==
  /\ pc[1] = "ok"
  /\ \E ns \in RootsOfKind("Namespace") :
       /\ Len(ns.def.elements) = 2
       /\ ns.def.elements[1].kind = "Class"
       /\ Len(ns.def.elements[1].def.methods) = 1
       /\ ns.def.elements[2].kind = "Namespace"
       /\ Len(ns.def.elements[2].def.elements) = 1
       /\ \E r \in Range(w[1]) : r.n = ns.def.elements[1].loc /\ r.t = "class"

\* the step of a root node's sequence a write belongs to: 0 the location
\* header, 1 the signature, 2 the description, 3 the blank line, 4 the body
Step(nd, r) ==
  IF r.n = nd.loc /\ r.g = "node"
  THEN CASE r.t = "header" -> 0
         [] r.t = "doc" -> 2
         [] r.t = "blank" -> 3
         [] OTHER -> 1
  ELSE 4

\* the writes of a completed pass from the header at place i up to the next
SegmentOf(p, i) ==
  LET later == { j \in Where(p, LAMBDA r : r.t = "header") : j > i }
      last == IF later = {} THEN Len(w[p]) ELSE (CHOOSE j \in later : \A k \in later : j <= k) - 1
  IN  SubSeq(w[p], i, last)

\* C8: a completed pass has written, for every root node in rendering order,
\* the location header, the signature (none for Import and ModuleDoc), the
\* description lines one unit deeper, a blank line, and the body iff the
\* kind is Class, Enum, Interface or Namespace; no root node is skipped.
C8_NodeSequence ==
  \A p \in Procs : pc[p] = "ok" =>
    LET heads == Where(p, LAMBDA r : r.t = "header")
    IN  /\ Cardinality(heads) = Len(doc_nodes)
        /\ Headers(p) = [i \in DOMAIN sorted[p] |-> sorted[p][i].loc]
        /\ w[p] # <<>> => 1 \in heads
        /\ \A i \in heads :
             LET nd == RootByLoc(w[p][i].n)
                 seg == SegmentOf(p, i)
                 at(k) == { j \in DOMAIN seg : Step(nd, seg[j]) = k }
             IN  /\ \A a \in DOMAIN seg : \A b \in DOMAIN seg :
                       a < b => Step(nd, seg[a]) <= Step(nd, seg[b])
                 /\ at(0) = {1}
                 /\ (at(1) # {}) <=> nd.kind \notin NoSignature
                 /\ \A j \in at(1) : seg[j].ind = 0
                 /\ Cardinality(at(2)) = nd.doc
                 /\ \A j \in at(2) : seg[j].ind = 1
                 /\ Cardinality(at(3)) = 1
                 /\ (at(4) # {}) <=> nd.kind \in Composite

\* a completed pass over an import and a class
C8_Witness ==
  /\ pc[1] = "ok"
  /\ Len(doc_nodes) = 2
  /\ doc_nodes[1].kind = "Import" /\ doc_nodes[1].doc = 1
  /\ doc_nodes[2].kind = "Class"
  /\ Headers(1) = <<2, 1>>

\* C9: in the class signature the <TypeParams> bracket is written iff the
\* type-parameter list is non-empty, the <SuperTypeParams> bracket only right
\* after an `extends Super` clause and only when the super type arguments are
\* non-empty, the implements clause iff the implements list is non-empty.
C9_ClassSignatureShape ==
  \A p \in Procs : pc[p] = "ok" =>
    \A c \in RootsOfKind("Class") :
      LET has(t) == Where(p, LAMBDA r : r.n = c.loc /\ r.g = "node" /\ r.t = t)
      IN  /\ (has("type_params") # {}) <=> c.def.type_params # 0
          /\ (has("extends") # {}) <=> c.def.extends # 0
          /\ (has("implements") # {}) <=> c.def.implements # 0
          /\ \A i \in has("super_type_params") :
               /\ c.def.super_type_params # 0
               /\ i - 1 \in has("extends")

GroupRank(g) ==
  CASE g = "ctor" -> 1 [] g = "prop" -> 2 [] g = "idx" -> 3 [] g = "method" -> 4
    [] g = "body" -> 5

LineRank(t) == CASE t = "decorator" -> 1 [] t = "doc" -> 3 [] OTHER -> 2

\* C10: the class body is written as all constructors, then the included
\* properties, then the index signatures, then the included methods, then
\* one blank line; a group keeps the order of the input list, and a member
\* writes its decorators, then its signature line, then its description.
C10_ClassBodyOrder ==
  \A p \in Procs : \A c \in RootsOfKind("Class") :
    LET body == SelectSeq(w[p], LAMBDA r : r.n = c.loc /\ r.g # "node")
        members(g) == IF g = "prop" THEN c.def.properties ELSE c.def.methods
    IN  /\ \A a \in DOMAIN body : \A b \in DOMAIN body : a < b =>
             LET x == body[a]
                 y == body[b]
             IN  /\ GroupRank(x.g) <= GroupRank(y.g)
                 /\ x.g = y.g => x.m <= y.m
                 /\ (x.g = y.g /\ x.m = y.m) =>
                      /\ x.g # "body"
                      /\ LineRank(x.t) <= LineRank(y.t)
                      /\ LineRank(x.t) = LineRank(y.t) => x.k < y.k
        /\ \A a \in DOMAIN body :
             body[a].ind = IF body[a].t = "doc" THEN 2 ELSE IF body[a].g = "body" THEN 0 ELSE 1
        /\ pc[p] = "ok" =>
             /\ body # <<>> /\ body[Len(body)].g = "body"
             /\ \A g \in {"prop", "method"} : \A i \in DOMAIN members(g) :
                  LET recs == MemberRecs(p, c.loc, g, i)
                      n(t) == Cardinality({ r \in recs : r.t = t })
                  IN  recs # {} =>
                        /\ n("decorator") = members(g)[i].decorators
                        /\ n("doc") = members(g)[i].doc
                        /\ n(IF g = "prop" THEN "property" ELSE "method") = 1
             /\ \A i \in DOMAIN c.def.constructors :
                  Cardinality({ r \in MemberRecs(p, c.loc, "ctor", i) : r.t = "doc" })
                    = c.def.constructors[i].doc

\* a completed pass over a class with two constructors, a decorated and
\* described property, two index signatures and a described method
C10_Witness ==
  /\ pc[1] = "ok" /\ printer[1].private
  /\ \E c \in RootsOfKind("Class") :
       /\ Len(c.def.constructors) = 2
       /\ c.def.index_signatures = 2
       /\ c.def.properties = <<Member("Private", 1, 1)>>
       /\ c.def.methods = <<Member("Protected", 0, 1)>>
       /\ MemberRecs(1, c.loc, "method", 1) # {}
       /\ MemberRecs(1, c.loc, "prop", 1) # {}

====
